---- MODULE Spec2Model ----
(***************************************************************************)
(* State machine of the two list pages of the dashboard: OrderList         *)
(* (src/src/components/Order/OrderList.tsx) and StockList                  *)
(* (src/unnamed/part_000).  The state is the hook state of the mounted     *)
(* component plus what is in flight outside it: remote calls that have not *)
(* resolved and timers that have not fired.  Strings the code inspects     *)
(* (toLowerCase, includes) are sequences of one-character strings.         *)
(***************************************************************************)
EXTENDS Integers, Sequences, FiniteSets, TLC

VARIABLES
    mounted,            \* which page component is mounted
    orders,             \* OrderList: canonical collection
    filteredOrders,     \* OrderList: filtered collection
    isLoading,          \* OrderList: initial load in progress
    error,              \* OrderList: shared error message or null
    searchQuery,        \* OrderList: raw query of the search box
    statusUpdates,      \* OrderList: order id -> {isLoading, error}
    confirmation,       \* OrderList: delete confirmation descriptor
    updateRequests,     \* OrderList: PUT update-order calls in flight
    statusTimers,       \* OrderList: pending auto-revert timers
    deleteRequests,     \* OrderList: DELETE delete-order calls in flight
    searchTimers,       \* OrderList: pending debounced handleSearch calls
    gestures,           \* how many times the user has acted on the page
    stocks,             \* StockList: canonical collection
    filteredStocks,     \* StockList: filtered collection
    stocksIsLoading,    \* StockList: initial load in progress
    stocksError,        \* StockList: shared error message or null
    stocksSearchQuery,  \* StockList: raw query of the search box
    stocksConfirmation, \* StockList: delete confirmation descriptor
    stocksDeleteRequests, \* StockList: DELETE delete-stock calls in flight
    stocksSearchTimers, \* StockList: pending debounced handleSearch calls
    productModal,       \* OrderList: browse overlay {isOpen, products}
    currentProductIndex, \* OrderList: index of the item shown, from 0
    currentImageIndex,  \* OrderList: index of the image shown, from 0
    lastHandler         \* the handler of the browse overlay that ran last

orderVars == <<orders, filteredOrders, isLoading, error, searchQuery,
               statusUpdates, confirmation, updateRequests, statusTimers,
               deleteRequests, searchTimers>>
stockVars == <<stocks, filteredStocks, stocksIsLoading, stocksError,
               stocksSearchQuery, stocksConfirmation, stocksDeleteRequests,
               stocksSearchTimers>>
browseVars == <<productModal, currentProductIndex, currentImageIndex,
                lastHandler>>
vars == <<mounted, gestures, orderVars, stockVars, browseVars>>

(***************************************************************************)
(* Bounds of the model.                                                    *)
(***************************************************************************)
\* how many times the user acts on the page (a keystroke in the search box, a
\* change of a status select, a click on delete, confirm or cancel)
MaxGestures == 5

(***************************************************************************)
(* Strings.                                                                *)
(***************************************************************************)
null == "null"

UpperCase == <<"A","B","C","D","E","F","G","H","I","J","K","L","M",
               "N","O","P","Q","R","S","T","U","V","W","X","Y","Z">>
LowerCase == <<"a","b","c","d","e","f","g","h","i","j","k","l","m",
               "n","o","p","q","r","s","t","u","v","w","x","y","z">>

\* one character of String.prototype.toLowerCase
LowerChar(c) ==
    IF \E i \in 1..Len(UpperCase) : UpperCase[i] = c
    THEN LowerCase[CHOOSE i \in 1..Len(UpperCase) : UpperCase[i] = c]
    ELSE c

toLowerCase(s) == [i \in 1..Len(s) |-> LowerChar(s[i])]

\* String.prototype.includes: q occurs in s as a contiguous substring
includes(s, q) ==
    \E i \in 0..(Len(s) - Len(q)) : SubSeq(s, i + 1, i + Len(q)) = q

Pending   == <<"P","e","n","d","i","n","g">>
Shipped   == <<"S","h","i","p","p","e","d">>
Delivered == <<"D","e","l","i","v","e","r","e","d">>
Cancelled == <<"C","a","n","c","e","l","l","e","d">>

orderStatusOptions == <<Pending, Shipped, Delivered, Cancelled>>

\* the options the modelled user picks
StatusChoices == {Pending, Shipped}

(***************************************************************************)
(* What the remote service can answer.                                     *)
(***************************************************************************)
orderA == [_id |-> "a",
           customer |-> [firstName |-> <<"A","n","n">>,
                         lastName |-> <<"L","e","e">>,
                         email |-> <<"a","@","x">>,
                         phone |-> <<"0","7">>],
           status |-> Pending]
\* no email: the field is optional
orderB == [_id |-> "b",
           customer |-> [firstName |-> <<"B","o">>,
                         lastName |-> <<"R","a","y">>,
                         phone |-> <<"0","8">>],
           status |-> Pending]

ServerOrderData == {<< >>, <<orderA, orderB>>}

stockA == [_id |-> "s1",
           product |-> [name |-> <<"C","a","p">>,
                        productCode |-> <<"P","1">>],
           batchNumber |-> <<"B","1">>,
           supplier |-> <<"A","c","m","e">>]
stockB == [_id |-> "s2",
           product |-> [name |-> <<"H","a","t">>,
                        productCode |-> <<"P","2">>],
           batchNumber |-> <<"B","2">>,
           supplier |-> <<"Z","e","d">>]

ServerStockData == {<< >>, <<stockA, stockB>>}

\* outcomes of fetch() for a list: the promise rejects (transport error), or
\* it resolves to a response with an ok flag and, when ok, a JSON envelope
ListResponses(data) ==
    {[kind |-> "reject", message |-> "Failed to fetch"],
     [kind |-> "response", ok |-> FALSE],
     [kind |-> "response", ok |-> TRUE,
      body |-> [status |-> "ERROR", message |-> "Server error"]],
     [kind |-> "response", ok |-> TRUE, body |-> [status |-> "ERROR"]]}
    \cup {[kind |-> "response", ok |-> TRUE,
           body |-> [status |-> "SUCCESS", data |-> d]] : d \in data}

\* outcomes of fetch() for an update or a delete: only response.ok is read
CallResponses ==
    {[kind |-> "reject", message |-> "Failed to fetch"],
     [kind |-> "response", ok |-> FALSE],
     [kind |-> "response", ok |-> TRUE]}

\* what the user types into the search box of the order page
OrderQueries == {<< >>, <<"p","e","n","d","i","n","g">>,
                 <<"s","h","i","p","p","e","d">>}
\* what the user types into the search box of the stock page
StockQueries == {<< >>, <<"c","a","p">>, <<"p">>}

(***************************************************************************)
(* Helpers on collections.                                                 *)
(***************************************************************************)
Ids(coll) == {coll[i]._id : i \in 1..Len(coll)}

RemoveAt(s, i) == SubSeq(s, 1, i - 1) \o SubSeq(s, i + 1, Len(s))

(***************************************************************************)
(* OrderList: pure parts of the handlers.                                  *)
(***************************************************************************)
\* the predicate of handleSearch: the lowered query is a substring of the
\* lowered first name, last name, status or (when present) email, or the
\* query as typed is a substring of the phone
OrderMatches(order, query) ==
    \/ includes(toLowerCase(order.customer.firstName), toLowerCase(query))
    \/ includes(toLowerCase(order.customer.lastName), toLowerCase(query))
    \/ includes(toLowerCase(order.status), toLowerCase(query))
    \/ /\ "email" \in DOMAIN order.customer
       /\ includes(toLowerCase(order.customer.email), toLowerCase(query))
    \/ includes(order.customer.phone, query)

\* FilterOrders whose loop starts one record late
FilterOrdersSkipFirst(coll, query) ==
    SelectSeq(SubSeq(coll, 2, Len(coll)),
              LAMBDA order : OrderMatches(order, query))

\* orders.filter(...) of handleSearch
FilterOrders(coll, query) ==
    SelectSeq(coll, LAMBDA order : OrderMatches(order, query))

\* SetOrderStatus without the test on the id: every record gets the status
SetOrderStatusAll(prevOrders, orderId, newStatus) ==
    [i \in 1..Len(prevOrders) |-> [prevOrders[i] EXCEPT !.status = newStatus]]

\* prevOrders.map(order => order._id === orderId ? {...order, status} : order)
SetOrderStatus(prevOrders, orderId, newStatus) ==
    [i \in 1..Len(prevOrders) |->
        IF prevOrders[i]._id = orderId
        THEN [prevOrders[i] EXCEPT !.status = newStatus]
        ELSE prevOrders[i]]

\* RemoveOrder with the test inverted: only the deleted record is kept
RemoveOrderInverted(prevOrders, orderId) ==
    SelectSeq(prevOrders, LAMBDA o : o._id = orderId)

\* prevOrders.filter(o => o._id !== order._id)
RemoveOrder(prevOrders, orderId) ==
    SelectSeq(prevOrders, LAMBDA o : o._id # orderId)

\* {...prev, [orderId]: record}
PutStatusUpdate(prev, orderId, record) ==
    [k \in DOMAIN prev \cup {orderId} |->
        IF k = orderId THEN record ELSE prev[k]]

\* DeleteStatusUpdate that clears every row's record
DeleteStatusUpdateAll(prev, orderId) == [k \in {} |-> prev[k]]

\* DeleteStatusUpdate that deletes nothing
DeleteStatusUpdateNone(prev, orderId) == prev

\* const updated = {...prev}; delete updated[orderId]
DeleteStatusUpdate(prev, orderId) ==
    [k \in DOMAIN prev \ {orderId} |-> prev[k]]

\* the message the catch block of loadData passes to setError
LoadOrdersError(resp) ==
    IF resp.kind = "reject" THEN resp.message
    ELSE IF ~resp.ok THEN "Failed to fetch orders"
    ELSE IF "message" \in DOMAIN resp.body THEN resp.body.message
    ELSE "Failed to fetch orders"

\* UpdateOrderError that loses the message
UpdateOrderErrorLost(resp) == null

\* the message the catch block of handleStatusChange stores in the record
UpdateOrderError(resp) ==
    IF resp.kind = "reject" THEN resp.message
    ELSE "Failed to update order status"

\* DeleteOrderError that loses the message
DeleteOrderErrorLost(resp) == null

\* the message the catch block of performDelete passes to setError
DeleteOrderError(resp) ==
    IF resp.kind = "reject" THEN resp.message
    ELSE "Failed to delete order"

\* a response on which the try block runs to its end
Succeeds(resp) == resp.kind = "response" /\ resp.ok

\* useCallback(debounce(...), [orders]): every setOrders gives handleSearch a
\* new debounced function; calls pending on the old ones keep their timer and
\* their captured orders
Superseded(timers) ==
    [i \in 1..Len(timers) |-> [timers[i] EXCEPT !.current = FALSE]]

\* the select of a row is disabled while statusUpdates[id]?.isLoading
SelectDisabled(orderId) ==
    orderId \in DOMAIN statusUpdates /\ statusUpdates[orderId].isLoading

\* the DataTable is rendered only when not loading and error is null
OrderTableShown == ~isLoading /\ error = null

NoConfirmation ==
    [isOpen |-> FALSE, title |-> "", message |-> << >>,
     confirmButtonText |-> "Confirm", cancelButtonText |-> "Cancel",
     itemToDelete |-> << >>]

(***************************************************************************)
(* OrderList: the steps.                                                   *)
(***************************************************************************)
\* LoadData that populates the canonical collection only
LoadDataPartial(resp) ==
    /\ mounted = "OrderList"
    /\ isLoading
    /\ IF Succeeds(resp) /\ resp.body.status = "SUCCESS"
       THEN /\ orders' = resp.body.data
            /\ UNCHANGED <<filteredOrders, error>>
       ELSE /\ error' = LoadOrdersError(resp)
            /\ UNCHANGED <<orders, filteredOrders>>
    /\ isLoading' = FALSE
    /\ UNCHANGED <<mounted, gestures, searchQuery, statusUpdates, confirmation,
                   updateRequests, statusTimers, deleteRequests, searchTimers,
                   stockVars,
                   browseVars>>

\* the fetch of loadData settles and the rest of loadData runs
LoadData(resp) ==
    /\ mounted = "OrderList"
    /\ isLoading
    /\ IF Succeeds(resp) /\ resp.body.status = "SUCCESS"
       THEN /\ orders' = resp.body.data
            /\ filteredOrders' = resp.body.data
            /\ error' = error
       ELSE /\ error' = LoadOrdersError(resp)
            /\ UNCHANGED <<orders, filteredOrders>>
    /\ isLoading' = FALSE
    /\ UNCHANGED <<mounted, gestures, searchQuery, statusUpdates, confirmation,
                   updateRequests, statusTimers, deleteRequests, searchTimers,
                   stockVars,
                   browseVars>>

\* onChange of the search box: setSearchQuery and the debounced handleSearch;
\* a call on the current debounced function replaces its pending call and
\* restarts its timer
handleSearchInputChange(query) ==
    /\ mounted = "OrderList"
    /\ gestures < MaxGestures
    /\ gestures' = gestures + 1
    /\ ~isLoading
    /\ query # searchQuery
    /\ LET others == SelectSeq(searchTimers, LAMBDA t : ~t.current)
       IN searchTimers' = Append(others, [orders |-> orders,
                                          query |-> query,
                                          current |-> TRUE])
    /\ searchQuery' = query
    /\ UNCHANGED <<mounted, orders, filteredOrders, isLoading, error,
                   statusUpdates, confirmation, updateRequests, statusTimers,
                   deleteRequests, stockVars,
                   browseVars>>

\* handleSearch that also narrows the canonical collection to the result
handleSearchNarrowing ==
    /\ mounted = "OrderList"
    /\ searchTimers # << >>
    /\ filteredOrders' = FilterOrders(Head(searchTimers).orders,
                                      Head(searchTimers).query)
    /\ orders' = filteredOrders'
    /\ searchTimers' = Tail(searchTimers)
    /\ UNCHANGED <<mounted, gestures, isLoading, error, searchQuery,
                   statusUpdates, confirmation, updateRequests, statusTimers,
                   deleteRequests, stockVars,
                   browseVars>>

\* the 300 ms timer of the oldest pending debounced call fires: the filter
\* runs over the orders that call's function captured
handleSearch ==
    /\ mounted = "OrderList"
    /\ searchTimers # << >>
    /\ filteredOrders' = FilterOrders(Head(searchTimers).orders,
                                      Head(searchTimers).query)
    /\ searchTimers' = Tail(searchTimers)
    /\ UNCHANGED <<mounted, gestures, orders, isLoading, error, searchQuery,
                   statusUpdates, confirmation, updateRequests, statusTimers,
                   deleteRequests, stockVars,
                   browseVars>>

\* onChange of the status select of a displayed row: handleStatusChange up to
\* its await
handleStatusChange(orderId, newStatus) ==
    /\ mounted = "OrderList"
    /\ gestures < MaxGestures
    /\ gestures' = gestures + 1
    /\ OrderTableShown
    /\ \E i \in 1..Len(filteredOrders) :
          /\ filteredOrders[i]._id = orderId
          /\ filteredOrders[i].status # newStatus
    /\ ~SelectDisabled(orderId)
    /\ statusUpdates' = PutStatusUpdate(statusUpdates, orderId,
                            [isLoading |-> TRUE, error |-> null])
    /\ updateRequests' = Append(updateRequests,
                            [orderId |-> orderId, newStatus |-> newStatus])
    /\ UNCHANGED <<mounted, orders, filteredOrders, isLoading, error,
                   searchQuery, confirmation, statusTimers, deleteRequests,
                   searchTimers, stockVars,
                   browseVars>>

\* UpdateSucceeds that puts the order back when the list no longer holds it
UpdateSucceedsPutsBack(i) ==
    /\ mounted = "OrderList"
    /\ i \in 1..Len(updateRequests)
    /\ LET req == updateRequests[i]
           served == CHOOSE o \in {orderA, orderB} : o._id = req.orderId
       IN /\ orders' =
                IF req.orderId \in Ids(orders)
                  THEN SetOrderStatus(orders, req.orderId, req.newStatus)
                  ELSE Append(orders, [served EXCEPT !.status = req.newStatus])
          /\ filteredOrders' =
                SetOrderStatus(filteredOrders, req.orderId, req.newStatus)
          /\ statusUpdates' = PutStatusUpdate(statusUpdates, req.orderId,
                                  [isLoading |-> FALSE, error |-> null])
          /\ statusTimers' = Append(statusTimers,
                                  [orderId |-> req.orderId, delay |-> 2000])
    /\ updateRequests' = RemoveAt(updateRequests, i)
    /\ searchTimers' = Superseded(searchTimers)
    /\ UNCHANGED <<mounted, gestures, isLoading, error, searchQuery, confirmation,
                   deleteRequests, stockVars,
                   browseVars>>
\* the PUT of request i resolves with a 2xx response: the rest of the try block
UpdateSucceeds(i) ==
    /\ mounted = "OrderList"
    /\ i \in 1..Len(updateRequests)
    /\ LET req == updateRequests[i]
       IN /\ orders' = SetOrderStatus(orders, req.orderId, req.newStatus)
          /\ filteredOrders' =
                SetOrderStatus(filteredOrders, req.orderId, req.newStatus)
          /\ statusUpdates' = PutStatusUpdate(statusUpdates, req.orderId,
                                  [isLoading |-> FALSE, error |-> null])
          /\ statusTimers' = Append(statusTimers,
                                  [orderId |-> req.orderId, delay |-> 2000])
    /\ updateRequests' = RemoveAt(updateRequests, i)
    /\ searchTimers' = Superseded(searchTimers)
    /\ UNCHANGED <<mounted, gestures, isLoading, error, searchQuery, confirmation,
                   deleteRequests, stockVars,
                   browseVars>>

\* the PUT of request i rejects or resolves with a non-2xx response: the catch
\* block
UpdateFails(i, resp) ==
    /\ mounted = "OrderList"
    /\ i \in 1..Len(updateRequests)
    /\ ~Succeeds(resp)
    /\ LET req == updateRequests[i]
       IN /\ statusUpdates' = PutStatusUpdate(statusUpdates, req.orderId,
                                  [isLoading |-> FALSE,
                                   error |-> UpdateOrderError(resp)])
          /\ statusTimers' = Append(statusTimers,
                                  [orderId |-> req.orderId, delay |-> 3000])
    /\ updateRequests' = RemoveAt(updateRequests, i)
    /\ UNCHANGED <<mounted, gestures, orders, filteredOrders, isLoading, error,
                   searchQuery, confirmation, deleteRequests, searchTimers,
                   stockVars,
                   browseVars>>

\* an auto-revert timer fires; a timer set earlier with a delay no longer than
\* this one's fires first
StatusTimerFires(i) ==
    /\ mounted = "OrderList"
    /\ i \in 1..Len(statusTimers)
    /\ \A j \in 1..(i - 1) : statusTimers[j].delay > statusTimers[i].delay
    /\ statusUpdates' = DeleteStatusUpdate(statusUpdates, statusTimers[i].orderId)
    /\ statusTimers' = RemoveAt(statusTimers, i)
    /\ UNCHANGED <<mounted, gestures, orders, filteredOrders, isLoading, error,
                   searchQuery, confirmation, updateRequests, deleteRequests,
                   searchTimers, stockVars,
                   browseVars>>

\* handleDelete that sends the remote call at once, with no confirmation
handleDeleteUnconfirmed(order) ==
    /\ mounted = "OrderList"
    /\ gestures < MaxGestures
    /\ gestures' = gestures + 1
    /\ OrderTableShown
    /\ \E i \in 1..Len(filteredOrders) : filteredOrders[i] = order
    /\ deleteRequests' = Append(deleteRequests, order._id)
    /\ UNCHANGED <<mounted, orders, filteredOrders, isLoading, error,
                   searchQuery, statusUpdates, confirmation, updateRequests,
                   statusTimers, searchTimers, stockVars,
                   browseVars>>

\* onDelete of a displayed row
handleDelete(order) ==
    /\ mounted = "OrderList"
    /\ gestures < MaxGestures
    /\ gestures' = gestures + 1
    /\ OrderTableShown
    /\ \E i \in 1..Len(filteredOrders) : filteredOrders[i] = order
    /\ confirmation' =
          [isOpen |-> TRUE, title |-> "Confirm Deletion",
           message |-> order.customer.firstName \o <<" ">>
                         \o order.customer.lastName,
           confirmButtonText |-> "Delete", cancelButtonText |-> "Cancel",
           itemToDelete |-> <<order>>]
    /\ UNCHANGED <<mounted, orders, filteredOrders, isLoading, error,
                   searchQuery, statusUpdates, updateRequests, statusTimers,
                   deleteRequests, searchTimers, stockVars,
                   browseVars>>

\* the confirm button of the open confirmation: onConfirm, that is
\* performDelete(order) up to its await
performDelete ==
    /\ mounted = "OrderList"
    /\ gestures < MaxGestures
    /\ gestures' = gestures + 1
    /\ ~isLoading
    /\ confirmation.isOpen
    /\ deleteRequests' = Append(deleteRequests, confirmation.itemToDelete[1]._id)
    /\ UNCHANGED <<mounted, orders, filteredOrders, isLoading, error,
                   searchQuery, statusUpdates, confirmation, updateRequests,
                   statusTimers, searchTimers, stockVars,
                   browseVars>>

\* the cancel button or the close control of the open confirmation
closeConfirmationModal ==
    /\ mounted = "OrderList"
    /\ gestures < MaxGestures
    /\ gestures' = gestures + 1
    /\ ~isLoading
    /\ confirmation.isOpen
    /\ confirmation' = [confirmation EXCEPT !.isOpen = FALSE]
    /\ UNCHANGED <<mounted, orders, filteredOrders, isLoading, error,
                   searchQuery, statusUpdates, updateRequests, statusTimers,
                   deleteRequests, searchTimers, stockVars,
                   browseVars>>

\* DeleteSettles that clears the error message when the delete succeeds
DeleteSettlesClearsError(i, resp) ==
    /\ mounted = "OrderList"
    /\ i \in 1..Len(deleteRequests)
    /\ IF Succeeds(resp)
       THEN /\ orders' = RemoveOrder(orders, deleteRequests[i])
            /\ filteredOrders' = RemoveOrder(filteredOrders, deleteRequests[i])
            /\ searchTimers' = Superseded(searchTimers)
            /\ error' = null
       ELSE /\ error' = DeleteOrderError(resp)
            /\ UNCHANGED <<orders, filteredOrders, searchTimers>>
    /\ confirmation' = [confirmation EXCEPT !.isOpen = FALSE]
    /\ deleteRequests' = RemoveAt(deleteRequests, i)
    /\ UNCHANGED <<mounted, gestures, isLoading, searchQuery, statusUpdates,
                   updateRequests, statusTimers, stockVars,
                   browseVars>>

\* the DELETE of request i settles: the rest of performDelete
DeleteSettles(i, resp) ==
    /\ mounted = "OrderList"
    /\ i \in 1..Len(deleteRequests)
    /\ IF Succeeds(resp)
       THEN /\ orders' = RemoveOrder(orders, deleteRequests[i])
            /\ filteredOrders' = RemoveOrder(filteredOrders, deleteRequests[i])
            /\ searchTimers' = Superseded(searchTimers)
            /\ error' = error
       ELSE /\ error' = DeleteOrderError(resp)
            /\ UNCHANGED <<orders, filteredOrders, searchTimers>>
    /\ confirmation' = [confirmation EXCEPT !.isOpen = FALSE]
    /\ deleteRequests' = RemoveAt(deleteRequests, i)
    /\ UNCHANGED <<mounted, gestures, isLoading, searchQuery, statusUpdates,
                   updateRequests, statusTimers, stockVars,
                   browseVars>>

OrderNext ==
    \/ \E resp \in ListResponses(ServerOrderData) : LoadData(resp)
    \/ \E query \in OrderQueries : handleSearchInputChange(query)
    \/ handleSearch
    \/ \E orderId \in Ids(filteredOrders), newStatus \in StatusChoices :
          handleStatusChange(orderId, newStatus)
    \/ \E i \in 1..Len(updateRequests) : UpdateSucceeds(i)
    \/ \E i \in 1..Len(updateRequests), resp \in CallResponses :
          UpdateFails(i, resp)
    \/ \E i \in 1..Len(statusTimers) : StatusTimerFires(i)
    \/ \E i \in 1..Len(filteredOrders) : handleDelete(filteredOrders[i])
    \/ performDelete
    \/ closeConfirmationModal
    \/ \E i \in 1..Len(deleteRequests), resp \in CallResponses :
          DeleteSettles(i, resp)

(***************************************************************************)
(* StockList: pure parts of the handlers.                                  *)
(***************************************************************************)
\* the predicate of handleSearch: the lowered query is a substring of the
\* lowered product name, product code, batch number or supplier
StockMatches(stock, query) ==
    \/ includes(toLowerCase(stock.product.name), toLowerCase(query))
    \/ includes(toLowerCase(stock.product.productCode), toLowerCase(query))
    \/ includes(toLowerCase(stock.batchNumber), toLowerCase(query))
    \/ includes(toLowerCase(stock.supplier), toLowerCase(query))

\* stocks.filter(...) of handleSearch
FilterStocks(coll, query) ==
    SelectSeq(coll, LAMBDA stock : StockMatches(stock, query))

\* prev.filter(s => s._id !== stock._id)
RemoveStock(prev, stockId) ==
    SelectSeq(prev, LAMBDA s : s._id # stockId)

\* the message the catch block of fetchStocks passes to setError
LoadStocksError(resp) ==
    IF resp.kind = "reject" THEN resp.message
    ELSE IF ~resp.ok THEN "Failed to fetch stocks"
    ELSE IF "message" \in DOMAIN resp.body THEN resp.body.message
    ELSE "Unknown error occurred"

\* the message the catch block of performDelete passes to setError
DeleteStockError(resp) ==
    IF resp.kind = "reject" THEN resp.message
    ELSE "Failed to delete stock"

\* the DataTable is rendered only when not loading and error is null
StockTableShown == ~stocksIsLoading /\ stocksError = null

(***************************************************************************)
(* StockList: the steps.                                                   *)
(***************************************************************************)
\* the fetch of fetchStocks settles and the rest of fetchStocks runs
fetchStocks(resp) ==
    /\ mounted = "StockList"
    /\ stocksIsLoading
    /\ IF Succeeds(resp) /\ resp.body.status = "SUCCESS"
       THEN /\ stocks' = resp.body.data
            /\ filteredStocks' = resp.body.data
            /\ stocksError' = stocksError
       ELSE /\ stocksError' = LoadStocksError(resp)
            /\ UNCHANGED <<stocks, filteredStocks>>
    /\ stocksIsLoading' = FALSE
    /\ UNCHANGED <<mounted, gestures, stocksSearchQuery, stocksConfirmation,
                   stocksDeleteRequests, stocksSearchTimers, orderVars,
                   browseVars>>

\* onChange of the search box: setSearchQuery and handleSearch; debounce(...)
\* runs in the component body, so the handleSearch of each render is a new
\* debounced function with its own timer, over the stocks of that render
stockHandleSearchInputChange(query) ==
    /\ mounted = "StockList"
    /\ gestures < MaxGestures
    /\ gestures' = gestures + 1
    /\ ~stocksIsLoading
    /\ query # stocksSearchQuery
    /\ stocksSearchQuery' = query
    /\ stocksSearchTimers' = Append(stocksSearchTimers,
                                    [stocks |-> stocks, query |-> query])
    /\ UNCHANGED <<mounted, stocks, filteredStocks, stocksIsLoading,
                   stocksError, stocksConfirmation, stocksDeleteRequests,
                   orderVars,
                   browseVars>>

\* the 300 ms timer of the oldest pending debounced call fires
stockHandleSearch ==
    /\ mounted = "StockList"
    /\ stocksSearchTimers # << >>
    /\ filteredStocks' = FilterStocks(Head(stocksSearchTimers).stocks,
                                      Head(stocksSearchTimers).query)
    /\ stocksSearchTimers' = Tail(stocksSearchTimers)
    /\ UNCHANGED <<mounted, gestures, stocks, stocksIsLoading, stocksError,
                   stocksSearchQuery, stocksConfirmation,
                   stocksDeleteRequests, orderVars,
                   browseVars>>

\* onDelete of a displayed row
stockHandleDelete(stock) ==
    /\ mounted = "StockList"
    /\ gestures < MaxGestures
    /\ gestures' = gestures + 1
    /\ StockTableShown
    /\ \E i \in 1..Len(filteredStocks) : filteredStocks[i] = stock
    /\ stocksConfirmation' =
          [isOpen |-> TRUE, title |-> "Confirm Deletion",
           message |-> stock.product.name \o <<" ">> \o stock.batchNumber,
           confirmButtonText |-> "Delete", cancelButtonText |-> "Cancel",
           itemToDelete |-> <<stock>>]
    /\ UNCHANGED <<mounted, stocks, filteredStocks, stocksIsLoading,
                   stocksError, stocksSearchQuery, stocksDeleteRequests,
                   stocksSearchTimers, orderVars,
                   browseVars>>

\* the confirm button of the open confirmation: performDelete(stock) up to its
\* await
stockPerformDelete ==
    /\ mounted = "StockList"
    /\ gestures < MaxGestures
    /\ gestures' = gestures + 1
    /\ ~stocksIsLoading
    /\ stocksConfirmation.isOpen
    /\ stocksDeleteRequests' =
          Append(stocksDeleteRequests, stocksConfirmation.itemToDelete[1]._id)
    /\ UNCHANGED <<mounted, stocks, filteredStocks, stocksIsLoading,
                   stocksError, stocksSearchQuery, stocksConfirmation,
                   stocksSearchTimers, orderVars,
                   browseVars>>

\* the cancel button or the close control of the open confirmation
stockCloseConfirmationModal ==
    /\ mounted = "StockList"
    /\ gestures < MaxGestures
    /\ gestures' = gestures + 1
    /\ ~stocksIsLoading
    /\ stocksConfirmation.isOpen
    /\ stocksConfirmation' = [stocksConfirmation EXCEPT !.isOpen = FALSE]
    /\ UNCHANGED <<mounted, stocks, filteredStocks, stocksIsLoading,
                   stocksError, stocksSearchQuery, stocksDeleteRequests,
                   stocksSearchTimers, orderVars,
                   browseVars>>

\* the DELETE of request i settles: the rest of performDelete
StockDeleteSettles(i, resp) ==
    /\ mounted = "StockList"
    /\ i \in 1..Len(stocksDeleteRequests)
    /\ IF Succeeds(resp)
       THEN /\ stocks' = RemoveStock(stocks, stocksDeleteRequests[i])
            /\ filteredStocks' =
                  RemoveStock(filteredStocks, stocksDeleteRequests[i])
            /\ stocksError' = stocksError
       ELSE /\ stocksError' = DeleteStockError(resp)
            /\ UNCHANGED <<stocks, filteredStocks>>
    /\ stocksConfirmation' = [stocksConfirmation EXCEPT !.isOpen = FALSE]
    /\ stocksDeleteRequests' = RemoveAt(stocksDeleteRequests, i)
    /\ UNCHANGED <<mounted, gestures, stocksIsLoading, stocksSearchQuery,
                   stocksSearchTimers, orderVars,
                   browseVars>>

StockNext ==
    \/ \E resp \in ListResponses(ServerStockData) : fetchStocks(resp)
    \/ \E query \in StockQueries : stockHandleSearchInputChange(query)
    \/ stockHandleSearch
    \/ \E i \in 1..Len(filteredStocks) : stockHandleDelete(filteredStocks[i])
    \/ stockPerformDelete
    \/ stockCloseConfirmationModal
    \/ \E i \in 1..Len(stocksDeleteRequests), resp \in CallResponses :
          StockDeleteSettles(i, resp)

Init ==
    /\ mounted \in {"OrderList", "StockList"}
    /\ gestures = 0
    /\ orders = << >>
    /\ filteredOrders = << >>
    /\ isLoading = TRUE
    /\ error = null
    /\ searchQuery = << >>
    /\ statusUpdates = [k \in {} |-> null]
    /\ confirmation = NoConfirmation
    /\ updateRequests = << >>
    /\ statusTimers = << >>
    /\ deleteRequests = << >>
    /\ searchTimers = << >>
    /\ stocks = << >>
    /\ filteredStocks = << >>
    /\ stocksIsLoading = TRUE
    /\ stocksError = null
    /\ stocksSearchQuery = << >>
    /\ stocksConfirmation = NoConfirmation
    /\ stocksDeleteRequests = << >>
    /\ stocksSearchTimers = << >>
    /\ productModal = [isOpen |-> FALSE, products |-> << >>]
    /\ currentProductIndex = 0
    /\ currentImageIndex = 0
    /\ lastHandler = "none"

Next == OrderNext \/ StockNext

Spec == Init /\ [][Next]_vars

\* some update call in flight settles
UpdateSettles ==
    \E i \in 1..Len(updateRequests) :
       \/ UpdateSucceeds(i)
       \/ \E resp \in CallResponses : UpdateFails(i, resp)

\* some auto-revert timer fires
SomeStatusTimerFires == \E i \in 1..Len(statusTimers) : StatusTimerFires(i)

\* the runs in which every update call settles and every timer set with
\* setTimeout fires
LiveSpec ==
    /\ Init
    /\ [][Next]_vars
    /\ WF_vars(UpdateSettles)
    /\ WF_vars(SomeStatusTimerFires)

(***************************************************************************)
(* The search alone, over more varied data and queries: the page loads and *)
(* the user only types.                                                    *)
(***************************************************************************)
\* a phone that holds a letter, no email
orderC == [_id |-> "c",
           customer |-> [firstName |-> <<"C","y">>,
                         lastName |-> <<"D","o","w">>,
                         phone |-> <<"0","9","X">>],
           status |-> Shipped]

SearchOrderData == {<<orderA, orderB>>, <<orderA, orderB, orderC>>}

SearchOrderQueries == OrderQueries \cup {<<"x">>, <<"A","N">>}

SearchStockQueries == StockQueries \cup {<<"A","C","M","E">>}

SearchNext ==
    \/ \E resp \in ListResponses(SearchOrderData) : LoadData(resp)
    \/ \E query \in SearchOrderQueries : handleSearchInputChange(query)
    \/ handleSearch
    \/ \E resp \in ListResponses(ServerStockData) : fetchStocks(resp)
    \/ \E query \in SearchStockQueries : stockHandleSearchInputChange(query)
    \/ stockHandleSearch

SearchSpec == Init /\ [][SearchNext]_vars

(***************************************************************************)
(* OrderList: the overlay that browses the items of one order and the      *)
(* images of the item shown, opened from a row of the displayed list.      *)
(***************************************************************************)
\* (prev + 1) % length
NextIndexNoWrap(prev, length) == prev + 1
NextIndex(prev, length) == (prev + 1) % length

\* (prev - 1 + length) % length
PrevIndex(prev, length) == (prev - 1 + length) % length

\* productModal.products[currentProductIndex]?.stock.product exists; the
\* code counts from 0, a sequence here from 1
HasCurrentProduct ==
    /\ currentProductIndex >= 0
    /\ currentProductIndex < Len(productModal.products)

\* productModal.products[currentProductIndex].stock.product
currentProduct == productModal.products[currentProductIndex + 1].stock.product

\* handleViewProducts that keeps the indices of the overlay shown before
handleViewProductsKeepsIndices(items) ==
    /\ mounted = "OrderList"
    /\ OrderTableShown
    /\ \E i \in 1..Len(filteredOrders) : filteredOrders[i].items = items
    /\ productModal' = [isOpen |-> TRUE, products |-> items]
    /\ lastHandler' = "handleViewProducts"
    /\ UNCHANGED <<mounted, gestures, orderVars, stockVars,
                   currentProductIndex, currentImageIndex>>

\* the View button of a displayed row: handleViewProducts(order.items)
handleViewProducts(items) ==
    /\ mounted = "OrderList"
    /\ OrderTableShown
    /\ \E i \in 1..Len(filteredOrders) : filteredOrders[i].items = items
    /\ productModal' = [isOpen |-> TRUE, products |-> items]
    /\ currentProductIndex' = 0
    /\ currentImageIndex' = 0
    /\ lastHandler' = "handleViewProducts"
    /\ UNCHANGED <<mounted, gestures, orderVars, stockVars>>

closeProductModal ==
    /\ mounted = "OrderList"
    /\ productModal.isOpen
    /\ productModal' = [productModal EXCEPT !.isOpen = FALSE]
    /\ lastHandler' = "closeProductModal"
    /\ UNCHANGED <<mounted, gestures, orderVars, stockVars,
                   currentProductIndex, currentImageIndex>>

goToNextProductLoose ==
    /\ mounted = "OrderList"
    /\ productModal.isOpen
    /\ IF Len(productModal.products) > 0
         THEN /\ currentProductIndex' =
                    NextIndex(currentProductIndex, Len(productModal.products))
              /\ currentImageIndex' = 0
         ELSE UNCHANGED <<currentProductIndex, currentImageIndex>>
    /\ lastHandler' = "goToNextProduct"
    /\ UNCHANGED <<mounted, gestures, orderVars, stockVars, productModal>>
goToNextProduct ==
    /\ mounted = "OrderList"
    /\ productModal.isOpen
    /\ IF Len(productModal.products) > 1
         THEN /\ currentProductIndex' =
                    NextIndex(currentProductIndex, Len(productModal.products))
              /\ currentImageIndex' = 0
         ELSE UNCHANGED <<currentProductIndex, currentImageIndex>>
    /\ lastHandler' = "goToNextProduct"
    /\ UNCHANGED <<mounted, gestures, orderVars, stockVars, productModal>>

goToPrevProductKeepsImage ==
    /\ mounted = "OrderList"
    /\ productModal.isOpen
    /\ IF Len(productModal.products) > 1
         THEN /\ currentProductIndex' =
                    PrevIndex(currentProductIndex, Len(productModal.products))
              /\ UNCHANGED currentImageIndex
         ELSE UNCHANGED <<currentProductIndex, currentImageIndex>>
    /\ lastHandler' = "goToPrevProduct"
    /\ UNCHANGED <<mounted, gestures, orderVars, stockVars, productModal>>
goToPrevProduct ==
    /\ mounted = "OrderList"
    /\ productModal.isOpen
    /\ IF Len(productModal.products) > 1
         THEN /\ currentProductIndex' =
                    PrevIndex(currentProductIndex, Len(productModal.products))
              /\ currentImageIndex' = 0
         ELSE UNCHANGED <<currentProductIndex, currentImageIndex>>
    /\ lastHandler' = "goToPrevProduct"
    /\ UNCHANGED <<mounted, gestures, orderVars, stockVars, productModal>>

goToNextImage ==
    /\ mounted = "OrderList"
    /\ productModal.isOpen
    /\ IF HasCurrentProduct /\ Len(currentProduct.images) > 1
         THEN currentImageIndex' =
                  NextIndex(currentImageIndex, Len(currentProduct.images))
         ELSE UNCHANGED currentImageIndex
    /\ lastHandler' = "goToNextImage"
    /\ UNCHANGED <<mounted, gestures, orderVars, stockVars, productModal,
                   currentProductIndex>>

goToPrevImage ==
    /\ mounted = "OrderList"
    /\ productModal.isOpen
    /\ IF HasCurrentProduct /\ Len(currentProduct.images) > 1
         THEN currentImageIndex' =
                  PrevIndex(currentImageIndex, Len(currentProduct.images))
         ELSE UNCHANGED currentImageIndex
    /\ lastHandler' = "goToPrevImage"
    /\ UNCHANGED <<mounted, gestures, orderVars, stockVars, productModal,
                   currentProductIndex>>

\* an item of an order: a stock of a product with its images
Item(id, images) ==
    [_id |-> id, stock |-> [product |-> [_id |-> id, images |-> images]]]

\* three items, of two, no and one image
orderD == [_id |-> "d", customer |-> orderA.customer, status |-> Pending,
           items |-> <<Item("d1", <<"i1", "i2">>), Item("d2", << >>),
                       Item("d3", <<"i3">>)>>]
\* one item of three images
orderE == [_id |-> "e", customer |-> orderB.customer, status |-> Pending,
           items |-> <<Item("e1", <<"i4", "i5", "i6">>)>>]
\* two items, of two and three images
orderF == [_id |-> "f", customer |-> orderA.customer, status |-> Shipped,
           items |-> <<Item("f1", <<"i7", "i8">>),
                       Item("f2", <<"i9", "i10", "i11">>)>>]
\* no item
orderG == [_id |-> "g", customer |-> orderB.customer, status |-> Shipped,
           items |-> << >>]

BrowseOrderData == {<<orderD, orderE, orderF, orderG>>}

BrowseNext ==
    \/ \E resp \in ListResponses(BrowseOrderData) : LoadData(resp)
    \/ \E query \in OrderQueries : handleSearchInputChange(query)
    \/ handleSearch
    \/ \E i \in 1..Len(filteredOrders) :
          handleViewProducts(filteredOrders[i].items)
    \/ closeProductModal
    \/ goToNextProduct
    \/ goToPrevProduct
    \/ goToNextImage
    \/ goToPrevImage

BrowseSpec == Init /\ [][BrowseNext]_vars

(***************************************************************************)
(* Vocabulary of the properties.                                           *)
(***************************************************************************)
AllOrderIds == UNION {Ids(d) : d \in ServerOrderData}

\* after is before with the status of the records with id X set to S and
\* nothing else touched: same length, same records at the same positions
OnlyStatusOf(before, after, X, S) ==
    /\ Len(after) = Len(before)
    /\ \A k \in 1..Len(before) :
          /\ after[k]._id = before[k]._id
          /\ after[k].customer = before[k].customer
          /\ after[k].status = IF before[k]._id = X THEN S ELSE before[k].status

\* after has the same records as before, each with the status it had
SameStatuses(before, after) ==
    /\ Len(after) = Len(before)
    /\ \A k \in 1..Len(before) :
          /\ after[k]._id = before[k]._id
          /\ after[k].status = before[k].status

\* after is before without the records with id X, the others in their order
WithoutId(before, after, X) ==
    LET keep == {k \in 1..Len(before) : before[k]._id # X}
    IN /\ Len(after) = Cardinality(keep)
       /\ \A k \in keep : after[Cardinality({j \in keep : j <= k})] = before[k]

\* every record of sub is a record of coll
Within(sub, coll) ==
    \A k \in 1..Len(sub) : \E j \in 1..Len(coll) : coll[j] = sub[k]

\* the state of a row's status-update record
RowState(updates, orderId) ==
    IF orderId \notin DOMAIN updates THEN "Idle"
    ELSE IF updates[orderId].isLoading THEN "Loading"
    ELSE IF updates[orderId].error = null THEN "Success"
    ELSE "Error"

RowTransitions ==
    {<<"Idle", "Loading">>, <<"Loading", "Success">>, <<"Loading", "Error">>,
     <<"Success", "Idle">>, <<"Error", "Idle">>}

InFlightFor(orderId) ==
    {i \in 1..Len(updateRequests) : updateRequests[i].orderId = orderId}

(***************************************************************************)
(* C1.  When the update of order X to status S succeeds remotely, exactly  *)
(* the records with _id = X get status S in orders and in filteredOrders;  *)
(* every other record, and the membership and order of both collections,   *)
(* is as before the step.                                                  *)
(***************************************************************************)
C1_UpdateSuccessFrame ==
    [][\A i \in 1..Len(updateRequests) :
          UpdateSucceeds(i) =>
             /\ OnlyStatusOf(orders, orders', updateRequests[i].orderId,
                             updateRequests[i].newStatus)
             /\ OnlyStatusOf(filteredOrders, filteredOrders',
                             updateRequests[i].orderId,
                             updateRequests[i].newStatus)]_vars

\* order a was updated to Shipped and shows the success mark; b is untouched
C1_Witness ==
    /\ orders = <<[orderA EXCEPT !.status = Shipped], orderB>>
    /\ filteredOrders = orders
    /\ RowState(statusUpdates, "a") = "Success"

(***************************************************************************)
(* C2.  A status update that fails (the call rejects, or resolves non-2xx) *)
(* changes the status of no order in either collection, neither when it is *)
(* issued nor when it fails, and the failing step sets the row's record to *)
(* {isLoading: false, error: <message>}.                                   *)
(***************************************************************************)
C2_UpdateFailureFrame ==
    [][/\ \A i \in 1..Len(updateRequests), resp \in CallResponses :
             UpdateFails(i, resp) =>
                /\ SameStatuses(orders, orders')
                /\ SameStatuses(filteredOrders, filteredOrders')
                /\ updateRequests[i].orderId \in DOMAIN statusUpdates'
                /\ statusUpdates'[updateRequests[i].orderId].isLoading = FALSE
                /\ statusUpdates'[updateRequests[i].orderId].error # null
                /\ statusUpdates'[updateRequests[i].orderId].error =
                      IF resp.kind = "reject" THEN resp.message
                      ELSE "Failed to update order status"
       /\ \A orderId \in AllOrderIds, newStatus \in StatusChoices :
             handleStatusChange(orderId, newStatus) =>
                /\ SameStatuses(orders, orders')
                /\ SameStatuses(filteredOrders, filteredOrders')]_vars

\* the update of a failed and nothing was updated
C2_Witness ==
    /\ RowState(statusUpdates, "a") = "Error"
    /\ orders = <<orderA, orderB>>
    /\ filteredOrders = <<orderA, orderB>>

(***************************************************************************)
(* C3.  In every reachable state every record of the filtered collection   *)
(* is a record of the canonical collection, on the order page and on the   *)
(* stock page.                                                             *)
(***************************************************************************)
C3_FilteredWithinCanonical ==
    /\ Within(filteredOrders, orders)
    /\ Within(filteredStocks, stocks)

(***************************************************************************)
(* C4.  The user starting a status change only on an enabled select, at    *)
(* most one update request is in flight for any order id.                  *)
(***************************************************************************)
C4_OneRequestPerRow ==
    \A orderId \in AllOrderIds : Cardinality(InFlightFor(orderId)) <= 1

(***************************************************************************)
(* C5.  Every change of the state of a row's status-update record is one   *)
(* of Idle -> Loading, Loading -> Success, Loading -> Error,               *)
(* Success -> Idle, Error -> Idle.                                         *)
(***************************************************************************)
C5_RowTransitions ==
    [][\A orderId \in AllOrderIds :
          RowState(statusUpdates, orderId) # RowState(statusUpdates', orderId)
          => <<RowState(statusUpdates, orderId),
               RowState(statusUpdates', orderId)>> \in RowTransitions]_vars

(***************************************************************************)
(* C6.  A remote delete is sent only by the confirm step of an open        *)
(* confirmation, for the entity the confirmation is bound to, and a        *)
(* confirmation is opened and bound only by a delete request on that       *)
(* entity; cancelling sends nothing and changes neither collection.  On    *)
(* both pages.                                                             *)
(***************************************************************************)
C6_DeleteNeedsConfirmation ==
    [][/\ deleteRequests' # deleteRequests /\ Len(deleteRequests') > Len(deleteRequests)
          => /\ confirmation.isOpen
             /\ Len(confirmation.itemToDelete) = 1
             /\ performDelete
             /\ deleteRequests' =
                   Append(deleteRequests, confirmation.itemToDelete[1]._id)
       /\ (confirmation'.itemToDelete # confirmation.itemToDelete
           \/ (~confirmation.isOpen /\ confirmation'.isOpen))
          => \E i \in 1..Len(filteredOrders) :
                /\ handleDelete(filteredOrders[i])
                /\ confirmation'.itemToDelete = <<filteredOrders[i]>>
                /\ confirmation'.isOpen
       /\ closeConfirmationModal
          => UNCHANGED <<deleteRequests, orders, filteredOrders>>
       /\ stocksDeleteRequests' # stocksDeleteRequests
          /\ Len(stocksDeleteRequests') > Len(stocksDeleteRequests)
          => /\ stocksConfirmation.isOpen
             /\ Len(stocksConfirmation.itemToDelete) = 1
             /\ stockPerformDelete
             /\ stocksDeleteRequests' =
                   Append(stocksDeleteRequests,
                          stocksConfirmation.itemToDelete[1]._id)
       /\ (stocksConfirmation'.itemToDelete # stocksConfirmation.itemToDelete
           \/ (~stocksConfirmation.isOpen /\ stocksConfirmation'.isOpen))
          => \E i \in 1..Len(filteredStocks) :
                /\ stockHandleDelete(filteredStocks[i])
                /\ stocksConfirmation'.itemToDelete = <<filteredStocks[i]>>
                /\ stocksConfirmation'.isOpen
       /\ stockCloseConfirmationModal
          => UNCHANGED <<stocksDeleteRequests, stocks, filteredStocks>>]_vars

\* the user asked to delete a, confirmed, and the call is in flight
C6_Witness ==
    /\ deleteRequests = <<"a">>
    /\ confirmation.isOpen
    /\ confirmation.itemToDelete = <<orderA>>

(***************************************************************************)
(* C7.  When a confirmed delete of id X succeeds remotely, the record with *)
(* id X leaves both collections and every other record stays, in the same  *)
(* order.  On both pages.                                                  *)
(***************************************************************************)
C7_DeleteSuccessRemovesOne ==
    [][/\ \A i \in 1..Len(deleteRequests), resp \in CallResponses :
             DeleteSettles(i, resp) /\ Succeeds(resp) =>
                /\ WithoutId(orders, orders', deleteRequests[i])
                /\ WithoutId(filteredOrders, filteredOrders', deleteRequests[i])
       /\ \A i \in 1..Len(stocksDeleteRequests), resp \in CallResponses :
             StockDeleteSettles(i, resp) /\ Succeeds(resp) =>
                /\ WithoutId(stocks, stocks', stocksDeleteRequests[i])
                /\ WithoutId(filteredStocks, filteredStocks',
                             stocksDeleteRequests[i])]_vars

\* a was deleted from the loaded <<a, b>>
C7_Witness ==
    /\ orders = <<orderB>>
    /\ filteredOrders = <<orderB>>
    /\ deleteRequests = << >>
    /\ ~confirmation.isOpen

(***************************************************************************)
(* C8.  When the remote delete fails, both collections are unchanged and   *)
(* the error message is set (not null).  On both pages.                    *)
(***************************************************************************)
C8_DeleteFailureFrame ==
    [][/\ \A i \in 1..Len(deleteRequests), resp \in CallResponses :
             DeleteSettles(i, resp) /\ ~Succeeds(resp) =>
                /\ UNCHANGED <<orders, filteredOrders>>
                /\ error' # null
       /\ \A i \in 1..Len(stocksDeleteRequests), resp \in CallResponses :
             StockDeleteSettles(i, resp) /\ ~Succeeds(resp) =>
                /\ UNCHANGED <<stocks, filteredStocks>>
                /\ stocksError' # null]_vars

\* a delete failed: the banner is set and both records are still there
C8_Witness ==
    /\ error = "Failed to delete order"
    /\ orders = <<orderA, orderB>>
    /\ filteredOrders = <<orderA, orderB>>

(***************************************************************************)
(* C9.  When the initial load completes, either the response was 2xx with  *)
(* envelope status SUCCESS, both collections equal the returned array and  *)
(* no error is set, or the load failed, both collections are empty and an  *)
(* error message is set; never is one collection populated and the other   *)
(* not.  On both pages.                                                    *)
(***************************************************************************)
C9_LoadAllOrNothing ==
    [][/\ \A resp \in ListResponses(ServerOrderData) :
             LoadData(resp) =>
                /\ ~isLoading'
                /\ IF Succeeds(resp) /\ resp.body.status = "SUCCESS"
                   THEN /\ orders' = resp.body.data
                        /\ filteredOrders' = resp.body.data
                        /\ error' = null
                   ELSE /\ orders' = << >>
                        /\ filteredOrders' = << >>
                        /\ error' # null
                /\ (orders' = << >>) <=> (filteredOrders' = << >>)
       /\ \A resp \in ListResponses(ServerStockData) :
             fetchStocks(resp) =>
                /\ ~stocksIsLoading'
                /\ IF Succeeds(resp) /\ resp.body.status = "SUCCESS"
                   THEN /\ stocks' = resp.body.data
                        /\ filteredStocks' = resp.body.data
                        /\ stocksError' = null
                   ELSE /\ stocks' = << >>
                        /\ filteredStocks' = << >>
                        /\ stocksError' # null
                /\ (stocks' = << >>) <=> (filteredStocks' = << >>)]_vars

\* the load of the order page has just completed with <<a, b>>
C9_Witness ==
    /\ ~isLoading
    /\ gestures = 0
    /\ orders = <<orderA, orderB>>
    /\ filteredOrders = <<orderA, orderB>>
    /\ error = null

(***************************************************************************)
(* C10.  When the canonical collection changes (a status update succeeds   *)
(* or a delete succeeds) and no debounced search is pending, the filtered  *)
(* collection is then the canonical records that match the current query.  *)
(***************************************************************************)
C10_FilterFollowsCanonical ==
    [][/\ (orders' # orders /\ ~isLoading /\ searchTimers' = << >>)
          => filteredOrders' = FilterOrders(orders', searchQuery')
       /\ (stocks' # stocks /\ ~stocksIsLoading /\ stocksSearchTimers' = << >>)
          => filteredStocks' = FilterStocks(stocks', stocksSearchQuery')]_vars

(***************************************************************************)
(* C11.  In a burst of keystrokes, each within the 300 ms window of the    *)
(* one before it (the earlier call's timer has not fired), the filter is   *)
(* recomputed once, after the last keystroke and with the last query: a    *)
(* keystroke made while a debounced call is pending leaves exactly one     *)
(* call pending, the one with the query just typed.  On both pages.        *)
(***************************************************************************)
C11_BurstCoalesces ==
    [][/\ \A query \in OrderQueries :
             handleSearchInputChange(query) /\ searchTimers # << >> =>
                /\ Len(searchTimers') = 1
                /\ searchTimers'[1].query = query
       /\ \A query \in StockQueries :
             stockHandleSearchInputChange(query) /\ stocksSearchTimers # << >> =>
                /\ Len(stocksSearchTimers') = 1
                /\ stocksSearchTimers'[1].query = query]_vars

(***************************************************************************)
(* C14.  Searching never changes the canonical collection: a keystroke or  *)
(* the firing of a debounced filter leaves orders (stocks) as it was.      *)
(***************************************************************************)
C14_SearchKeepsCanonical ==
    [][/\ (\E query \in OrderQueries : handleSearchInputChange(query))
          => orders' = orders
       /\ handleSearch => orders' = orders
       /\ (\E query \in StockQueries : stockHandleSearchInputChange(query))
          => stocks' = stocks
       /\ stockHandleSearch => stocks' = stocks]_vars

\* the query "shipped" was typed and its filter fired: nothing is displayed
\* and both orders are still in the canonical collection
C14_Witness ==
    /\ orders = <<orderA, orderB>>
    /\ searchQuery = <<"s","h","i","p","p","e","d">>
    /\ searchTimers = << >>
    /\ filteredOrders = << >>

(***************************************************************************)
(* C18.  Rows are independent: for distinct order ids X and Y, no step of  *)
(* an update on X (its start, its success, its failure, the firing of its  *)
(* auto-revert timer) changes Y's status-update record or Y's status in    *)
(* either collection.                                                      *)
(***************************************************************************)
RecordOf(updates, orderId) ==
    IF orderId \in DOMAIN updates THEN <<updates[orderId]>> ELSE << >>

StatusesOf(coll, orderId) ==
    [k \in {j \in 1..Len(coll) : coll[j]._id = orderId} |-> coll[k].status]

RowUntouched(Y) ==
    /\ RecordOf(statusUpdates', Y) = RecordOf(statusUpdates, Y)
    /\ Len(orders') = Len(orders)
    /\ Len(filteredOrders') = Len(filteredOrders)
    /\ StatusesOf(orders', Y) = StatusesOf(orders, Y)
    /\ StatusesOf(filteredOrders', Y) = StatusesOf(filteredOrders, Y)

C18_RowsIndependent ==
    [][\A X \in AllOrderIds : \A Y \in AllOrderIds \ {X} :
          (\/ \E newStatus \in StatusChoices : handleStatusChange(X, newStatus)
           \/ \E i \in 1..Len(updateRequests) :
                 /\ updateRequests[i].orderId = X
                 /\ \/ UpdateSucceeds(i)
                    \/ \E resp \in CallResponses : UpdateFails(i, resp)
           \/ \E i \in 1..Len(statusTimers) :
                 /\ statusTimers[i].orderId = X
                 /\ StatusTimerFires(i))
          => RowUntouched(Y)]_vars

\* the update of a has succeeded and its timer has fired while the update
\* of b is still in flight
C18_Witness ==
    /\ orders = <<[orderA EXCEPT !.status = Shipped], orderB>>
    /\ RowState(statusUpdates, "a") = "Idle"
    /\ RowState(statusUpdates, "b") = "Loading"
    /\ Len(updateRequests) = 1
    /\ statusTimers = << >>

(***************************************************************************)
(* C20.  When a second update on a row starts before the auto-revert timer *)
(* of an earlier attempt has fired, that timer removes only the record of  *)
(* its own attempt: the record it removes is not Loading (a Loading record *)
(* is that of an attempt started after the timer was set) and no timer set *)
(* after it for the same row is pending (the record would be that of the   *)
(* attempt that set the later timer).                                      *)
(***************************************************************************)
C20_TimerRemovesOwnRecord ==
    [][\A i \in 1..Len(statusTimers) :
          StatusTimerFires(i) /\ statusTimers[i].orderId \in DOMAIN statusUpdates
          => /\ RowState(statusUpdates, statusTimers[i].orderId) # "Loading"
             /\ \A j \in (i + 1)..Len(statusTimers) :
                   statusTimers[j].orderId # statusTimers[i].orderId]_vars

(***************************************************************************)
(* C19.  If every update call eventually settles and every timer           *)
(* eventually fires, a row that has a status-update record eventually has  *)
(* none, whether the attempt succeeded or failed, and once no further      *)
(* update is started on the row it stays without one.                      *)
(***************************************************************************)
C19_RowReturnsToIdle ==
    \A orderId \in AllOrderIds :
       /\ (orderId \in DOMAIN statusUpdates) ~> (orderId \notin DOMAIN statusUpdates)
       /\ <>[](orderId \notin DOMAIN statusUpdates)

\* an update of a was attempted and failed, its timer has fired and the row
\* has no record
C19_Witness ==
    /\ mounted = "OrderList"
    /\ ~isLoading
    /\ gestures = 1
    /\ orders = <<orderA, orderB>>
    /\ updateRequests = << >>
    /\ statusTimers = << >>
    /\ searchQuery = << >>
    /\ ~confirmation.isOpen
    /\ confirmation.itemToDelete = << >>
    /\ "a" \notin DOMAIN statusUpdates

(***************************************************************************)
(* C12.  The filter keeps exactly the records of the collection it runs    *)
(* over for which the query is a case-insensitive substring of one of the  *)
(* fixed fields (orders: first name, last name, status, email, phone;      *)
(* stocks: product name, product code, batch number, supplier); over       *)
(* [{a, Pending}, {b, Pending}] "pending" keeps both and "shipped" none,   *)
(* and the empty query keeps every record.                                 *)
(***************************************************************************)
CaseInsensitiveIn(field, query) ==
    includes(toLowerCase(field), toLowerCase(query))

OrderFields(order) ==
    {order.customer.firstName, order.customer.lastName, order.status,
     order.customer.phone}
    \cup (IF "email" \in DOMAIN order.customer
          THEN {order.customer.email} ELSE {})

StockFields(stock) ==
    {stock.product.name, stock.product.productCode, stock.batchNumber,
     stock.supplier}

C12_FilterKeepsMatches ==
    [][/\ handleSearch =>
             LET coll == Head(searchTimers).orders
                 query == Head(searchTimers).query
             IN /\ filteredOrders' =
                      SelectSeq(coll, LAMBDA o :
                         \E f \in OrderFields(o) : CaseInsensitiveIn(f, query))
                /\ (coll = <<orderA, orderB>>
                    /\ query = <<"p","e","n","d","i","n","g">>)
                   => filteredOrders' = <<orderA, orderB>>
                /\ (coll = <<orderA, orderB>>
                    /\ query = <<"s","h","i","p","p","e","d">>)
                   => filteredOrders' = << >>
                /\ query = << >> => filteredOrders' = coll
       /\ stockHandleSearch =>
             LET coll == Head(stocksSearchTimers).stocks
                 query == Head(stocksSearchTimers).query
             IN /\ filteredStocks' =
                      SelectSeq(coll, LAMBDA s :
                         \E f \in StockFields(s) : CaseInsensitiveIn(f, query))
                /\ query = << >> => filteredStocks' = coll]_vars

(***************************************************************************)
(* C13.  Filtering is idempotent: applying the filter with the same query  *)
(* to what the filter produced gives the same collection again.            *)
(***************************************************************************)
C13_FilterIdempotent ==
    [][/\ handleSearch =>
             FilterOrders(filteredOrders', Head(searchTimers).query)
                = filteredOrders'
       /\ stockHandleSearch =>
             FilterStocks(filteredStocks', Head(stocksSearchTimers).query)
                = filteredStocks']_vars

\* "shipped" was typed over <<a, b, c>> and its filter fired: only c is kept
C13_Witness ==
    /\ orders = <<orderA, orderB, orderC>>
    /\ searchQuery = <<"s","h","i","p","p","e","d">>
    /\ searchTimers = << >>
    /\ filteredOrders = <<orderC>>
\* the index after k presses of 'next' from index i in a sequence of n
RECURSIVE NextTimes(_, _, _)
NextTimes(k, i, n) == IF k = 0 THEN i ELSE NextTimes(k - 1, NextIndex(i, n), n)

NumItems == Len(productModal.products)
NumImages == IF HasCurrentProduct THEN Len(currentProduct.images) ELSE 0

\* C15: over n >= 2 items 'next' takes the item index i to (i+1) mod n and
\* 'prev' to (i-1+n) mod n, so that n presses of 'next' come back to i and
\* 'prev' from 0 gives n-1 (three 'next' from 0 give 0 and 'prev' from 0
\* gives 2 when n = 3); the image index follows the same rule over the
\* m >= 2 images of the item shown.
C15_CircularNavigation ==
    [][/\ goToNextProduct /\ NumItems >= 2 =>
            /\ currentProductIndex' = (currentProductIndex + 1) % NumItems
            /\ NextTimes(NumItems, currentProductIndex, NumItems)
                   = currentProductIndex
            /\ NumItems = 3 => NextTimes(3, 0, NumItems) = 0
       /\ goToPrevProduct /\ NumItems >= 2 =>
            /\ currentProductIndex' =
                   (currentProductIndex - 1 + NumItems) % NumItems
            /\ currentProductIndex = 0 => currentProductIndex' = NumItems - 1
            /\ NumItems = 3 => PrevIndex(0, NumItems) = 2
       /\ goToNextImage /\ NumImages >= 2 =>
            /\ currentImageIndex' = (currentImageIndex + 1) % NumImages
            /\ NextTimes(NumImages, currentImageIndex, NumImages)
                   = currentImageIndex
       /\ goToPrevImage /\ NumImages >= 2 =>
            /\ currentImageIndex' =
                   (currentImageIndex - 1 + NumImages) % NumImages
            /\ currentImageIndex = 0 => currentImageIndex' = NumImages - 1
      ]_vars

\* 'prev' was pressed at index 0 of three items and the last item is shown
C15_Witness ==
    /\ productModal.isOpen
    /\ NumItems = 3
    /\ lastHandler = "goToPrevProduct"
    /\ currentProductIndex = 2
\* C16: over at most one item 'next' and 'prev' on items leave the item
\* index, which is 0, and the image index as they are; over at most one image
\* of the item shown 'next' and 'prev' on images leave the image index as it
\* is.
C16_ShortSequenceNoOp ==
    [][/\ (goToNextProduct \/ goToPrevProduct) /\ NumItems <= 1 =>
            /\ currentProductIndex = 0
            /\ UNCHANGED <<currentProductIndex, currentImageIndex>>
       /\ (goToNextImage \/ goToPrevImage) /\ NumImages <= 1 =>
            UNCHANGED <<currentProductIndex, currentImageIndex>>
      ]_vars

\* 'next' was pressed on the only item of an order while its second image
\* was shown
C16_Witness ==
    /\ productModal.isOpen
    /\ NumItems = 1
    /\ lastHandler = "goToNextProduct"
    /\ currentProductIndex = 0
    /\ currentImageIndex = 1

\* C17: a step that changes the item index (next item, previous item, opening
\* the overlay on the items of an order) ends with the image index 0.
C17_ItemChangeResetsImage ==
    [][/\ currentProductIndex' # currentProductIndex => currentImageIndex' = 0
       /\ (goToNextProduct \/ goToPrevProduct) /\ NumItems >= 2 =>
            currentImageIndex' = 0
       /\ (\E i \in 1..Len(filteredOrders) :
              handleViewProducts(filteredOrders[i].items)) =>
            currentProductIndex' = 0 /\ currentImageIndex' = 0
      ]_vars

\* 'prev' was pressed on the first of two items: the second item is shown
\* with its first image
C17_Witness ==
    /\ productModal.isOpen
    /\ NumItems = 2
    /\ lastHandler = "goToPrevProduct"
    /\ currentProductIndex = 1
    /\ currentImageIndex = 0
\* C21: an order removed by a successful delete never comes back to the
\* canonical list: a delete succeeds only after the load, after the load no
\* step adds an id to the list, and the success of a status update for an id
\* the list no longer holds leaves it out.
C21_DeletedStaysDeleted ==
    [][/\ ~isLoading => ~isLoading' /\ Ids(orders') \subseteq Ids(orders)
       /\ \A i \in 1..Len(deleteRequests) :
             (\E resp \in CallResponses :
                 Succeeds(resp) /\ DeleteSettles(i, resp)) =>
                /\ ~isLoading
                /\ deleteRequests[i] \notin Ids(orders')
       /\ \A i \in 1..Len(updateRequests) :
             UpdateSucceeds(i) /\ updateRequests[i].orderId \notin Ids(orders)
                => updateRequests[i].orderId \notin Ids(orders')
      ]_vars
\* order a is deleted, order b is still listed, and a status update of
\* order a, sent before the delete, is still in flight
C21_Witness ==
    /\ mounted = "OrderList"
    /\ Ids(orders) = {"b"}
    /\ \E i \in 1..Len(updateRequests) : updateRequests[i].orderId = "a"
\* C22: once the load has started the error message of a page is never set
\* back to null: a failed delete sets it, every later step keeps it set, and
\* the table, shown only while the message is null, is not shown again,
\* whatever deletes or status updates succeed afterwards.
C22_ErrorIsTerminal ==
    [][/\ error # null => error' # null /\ ~OrderTableShown'
       /\ stocksError # null => stocksError' # null /\ ~StockTableShown'
       /\ \A i \in 1..Len(deleteRequests) : \A resp \in CallResponses :
             DeleteSettles(i, resp) /\ ~Succeeds(resp) => error' # null
       /\ \A i \in 1..Len(stocksDeleteRequests) : \A resp \in CallResponses :
             StockDeleteSettles(i, resp) /\ ~Succeeds(resp)
                => stocksError' # null
      ]_vars

\* a delete has failed, the table is hidden, and the record of order a shows
\* a successful status update
C22_Witness ==
    /\ mounted = "OrderList"
    /\ error = "Failed to delete order"
    /\ ~OrderTableShown
    /\ "a" \in DOMAIN statusUpdates
    /\ ~statusUpdates["a"].isLoading
    /\ statusUpdates["a"].error = null
\* C23: whenever the overlay holds at least one item, the item index is
\* within 0..len(items)-1, and when the item shown has at least one image the
\* image index is within 0..len(images)-1, whatever was opened, closed or
\* pressed.
C23_IndicesInRange ==
    NumItems >= 1 =>
       /\ currentProductIndex \in 0..(NumItems - 1)
       /\ NumImages >= 1 => currentImageIndex \in 0..(NumImages - 1)

\* the last image of the last item of an order is shown, reached with 'next
\* image'
C23_Witness ==
    /\ productModal.isOpen
    /\ NumItems = 2
    /\ currentProductIndex = 1
    /\ NumImages = 3
    /\ currentImageIndex = 2
    /\ lastHandler = "goToNextImage"

====
